---- MODULE Spec2Model ----
(***************************************************************************)
(* Model of the upload pipeline of flask_app.py: upload_file, allowed_file *)
(* and process_file.  One request is followed from its arrival to its      *)
(* response.  Strings that the code inspects (file names, extensions) are  *)
(* sequences of one-character strings.  The collaborators that live        *)
(* outside flask_app.py (file_handler, text_extractor, translator,         *)
(* image_processor, arabic_renderer) are modelled at their interface:      *)
(* each call either raises or returns a value that records its arguments.  *)
(***************************************************************************)
EXTENDS Integers, Sequences, FiniteSets, TLC

VARIABLES
    OCR_AVAILABLE,          \* module global: the import of the real text extractor succeeded
    text_extractor,         \* module global: the class the text_extractor service was built from
    pc,                     \* position of the request inside upload_file / process_file
    request,                \* the multipart request: has_file, raw filename, size in bytes
    filename,               \* upload_file: filename = secure_filename(file.filename)
    temp_input,             \* upload_file: path of the temp copy of the upload (0 = none)
    fs,                     \* temp directory: path -> content of every existing file
    written,                \* history: path -> content of every file ever written
    nextTmp,                \* next fresh name handed out by tempfile.NamedTemporaryFile
    images,                 \* process_file: images
    idx,                    \* process_file: position of the for loop over images
    text_regions,           \* process_file: text_regions of the current image
    detected,               \* history: what extract_text returned for each image so far
    translated_regions,     \* process_file: translated_regions of the current image
    ridx,                   \* process_file: position of the for loop over text_regions
    outcomes,               \* history: "ok" / "failed" per translate call of the current image
    cleaned_image,          \* process_file: cleaned_image
    final_image,            \* process_file: final_image
    processed_files,        \* process_file: processed_files (the bundle being built)
    returned_files,         \* upload_file: processed_files (the bundle returned)
    zip_file,               \* upload_file: entries written to the ZIP so far
    unlinked,               \* upload_file: number of bundle files unlinked by the clean-up loop
    exc,                    \* the exception raised in this request ("" = none)
    calls,                  \* collaborator calls made for this request: <<service, image index>>
    response                \* the response of the request

vars == <<OCR_AVAILABLE, text_extractor, pc, request, filename, temp_input, fs, written, nextTmp, images, idx,
          text_regions, detected, translated_regions, ridx, outcomes, cleaned_image,
          final_image, processed_files,
          returned_files, zip_file, unlinked, exc, calls, response>>

----------------------------------------------------------------------------
(* Bounds of the model *)

MaxImages == 2
MaxRegions == 2

----------------------------------------------------------------------------
(* Strings *)

UpperChars == <<"A","B","C","D","E","F","G","H","I","J","K","L","M",
                "N","O","P","Q","R","S","T","U","V","W","X","Y","Z">>
LowerChars == <<"a","b","c","d","e","f","g","h","i","j","k","l","m",
                "n","o","p","q","r","s","t","u","v","w","x","y","z">>

\* str.lower() on one character
LowerChar(c) ==
    IF \E i \in 1..Len(UpperChars) : UpperChars[i] = c
    THEN LowerChars[CHOOSE i \in 1..Len(UpperChars) : UpperChars[i] = c]
    ELSE c

\* str.lower()
lower(s) == [i \in 1..Len(s) |-> LowerChar(s[i])]

\* '.' in s
HasDot(s) == \E i \in 1..Len(s) : s[i] = "."

\* index of the last '.' of s (0 when there is none)
LastDot(s) ==
    IF HasDot(s) THEN CHOOSE i \in 1..Len(s) : s[i] = "." /\ \A j \in (i+1)..Len(s) : s[j] # "."
    ELSE 0

\* s.rsplit('.', 1): <<s>> without a dot, else <<before last dot, after last dot>>
rsplit(s) ==
    IF HasDot(s) THEN <<SubSeq(s, 1, LastDot(s) - 1), SubSeq(s, LastDot(s) + 1, Len(s))>>
    ELSE <<s>>

ALLOWED_EXTENSIONS ==
    { <<"p","n","g">>, <<"j","p","g">>, <<"j","p","e","g">>, <<"g","i","f">>,
      <<"b","m","p">>, <<"t","i","f","f">>, <<"w","e","b","p">>, <<"p","d","f">>,
      <<"z","i","p">>, <<"r","a","r">>, <<"c","b","z">>, <<"c","b","r">> }

\* allowed_file without the "'.' in filename" test: the last piece of the split is taken
allowed_file_NoDotCheck(name) ==
    lower(rsplit(name)[Len(rsplit(name))]) \in ALLOWED_EXTENSIONS

allowed_file(name) ==
    HasDot(name) /\ lower(rsplit(name)[2]) \in ALLOWED_EXTENSIONS

\* werkzeug secure_filename on names made of letters, digits and dots:
\* leading and trailing dots are stripped, the rest is kept
RECURSIVE StripLeft(_)
StripLeft(s) == IF s # <<>> /\ Head(s) = "." THEN StripLeft(Tail(s)) ELSE s
RECURSIVE StripRight(_)
StripRight(s) ==
    IF s # <<>> /\ s[Len(s)] = "." THEN StripRight(SubSeq(s, 1, Len(s) - 1)) ELSE s
secure_filename(name) == StripRight(StripLeft(name))

\* the file names a request may carry
FileNames ==
    { <<>>,
      <<"a">>,
      <<"z","i","p">>,
      <<"a",".">>,
      <<"a",".","e","x","e">>,
      <<"a",".","z","i","p",".","e","x","e">>,
      <<"a",".","P","d","F">>,
      <<"b",".","a",".","z","i","p">> }

\* Config.MAX_FILE_SIZE, in bytes
MAX_FILE_SIZE == 200 * 1024 * 1024

\* Config.SUPPORTED_IMAGE_FORMATS
SUPPORTED_IMAGE_FORMATS ==
    { <<".","p","n","g">>, <<".","j","p","g">>, <<".","j","p","e","g">>,
      <<".","w","e","b","p">>, <<".","b","m","p">>, <<".","t","i","f","f">>,
      <<".","g","i","f">> }

\* Config.SUPPORTED_PDF_FORMATS
SUPPORTED_PDF_FORMATS == { <<".","p","d","f">> }

\* Config.SUPPORTED_ARCHIVE_FORMATS
SUPPORTED_ARCHIVE_FORMATS ==
    { <<".","z","i","p">>, <<".","r","a","r">>, <<".","c","b","z">>, <<".","c","b","r">> }

\* Config.get_supported_formats()
get_supported_formats ==
    SUPPORTED_IMAGE_FORMATS \cup SUPPORTED_PDF_FORMATS \cup SUPPORTED_ARCHIVE_FORMATS

\* Config.is_image_format(extension)
is_image_format(extension) == lower(extension) \in SUPPORTED_IMAGE_FORMATS

\* is_pdf_format comparing the extension as given, without lower()
is_pdf_format_NoLower(extension) == extension \in SUPPORTED_PDF_FORMATS

\* Config.is_pdf_format(extension)
is_pdf_format(extension) == lower(extension) \in SUPPORTED_PDF_FORMATS

\* Config.is_archive_format(extension)
is_archive_format(extension) == lower(extension) \in SUPPORTED_ARCHIVE_FORMATS

\* the uploads a request may carry, as <<filename, size in bytes>>: every name
\* with a file of the largest allowed size, and one rejected and one accepted
\* name with a file one byte larger
Uploads ==
    { <<n, MAX_FILE_SIZE>> : n \in FileNames }
    \cup { <<n, MAX_FILE_SIZE + 1>> : n \in { <<"a",".","e","x","e">>, <<"a",".","P","d","F">> } }

----------------------------------------------------------------------------
(* Values handled by the pipeline *)

Pixels == {"p1", "p2"}

\* an element of the list file_handler.extract_images returns: {'data': image}
SourceImage(px) == [data |-> [kind |-> "source", px |-> px]]

\* the k-th raw detection of the engine for an image: text, bounding box
\* (x, y, width, height) and confidence in tenths; of every three, the first
\* is confident (0.5), the second is not (0.2), the third carries no
\* 'confidence' key
Region(k) ==
    CASE k % 3 = 1 -> [text |-> <<"src", k>>, bbox |-> <<10 * k, 0, 8, 4>>, confidence |-> 5]
      [] k % 3 = 2 -> [text |-> <<"src", k>>, bbox |-> <<10 * k, 0, 8, 4>>, confidence |-> 2]
      [] OTHER -> [text |-> <<"src", k>>, bbox |-> <<10 * k, 0, 8, 4>>]

RECURSIVE SeqsUpTo(_, _)
SeqsUpTo(S, n) ==
    IF n = 0 THEN { <<>> }
    ELSE LET shorter == SeqsUpTo(S, n - 1)
         IN  shorter \cup { Append(s, e) : s \in { t \in shorter : Len(t) = n - 1 }, e \in S }

\* results of file_handler.extract_images: a non-empty list of images
ExtractResults == { [i \in 1..Len(s) |-> SourceImage(s[i])] : s \in SeqsUpTo(Pixels, MaxImages) \ { <<>> } }

\* a threshold of 0.0, in tenths
OCR_CONFIDENCE_THRESHOLD_Zero == 0 * 10

\* Config.OCR_CONFIDENCE_THRESHOLD (0.3), in tenths
OCR_CONFIDENCE_THRESHOLD == 3

\* what the detection engine finds in an image, before filtering
RawDetections == { [k \in 1..n |-> Region(k)] : n \in 0..(MaxRegions + 1) }

\* the detector keeps a raw detection unless its confidence is below the threshold
Confident(region) ==
    "confidence" \in DOMAIN region => region.confidence >= OCR_CONFIDENCE_THRESHOLD

\* text_extractor.extract_text(image) of the real engine, for the raw detections raw
extract_text(raw) == SelectSeq(raw, Confident)

\* results of text_extractor.extract_text of the real engine
DetectResults == { extract_text(raw) : raw \in RawDetections }

\* results of text_extractor.extract_text of the service built from class cls:
\* the fallback finds no text
DetectResultsOf(cls) == IF cls = "TextExtractor" THEN DetectResults ELSE { <<>> }

\* translator.translate(text) when it returns
translate(text) == <<"ar", text[2]>>

\* region.get('confidence', 1.0), in tenths
GetConfidence(region) ==
    IF "confidence" \in DOMAIN region THEN region.confidence ELSE 10

\* image_processor.remove_text(image, regions) when it returns
remove_text(image, regions) == [kind |-> "cleaned", base |-> image, regions |-> regions]

\* arabic_renderer.render_text(image, regions) when it returns
render_text(image, regions) == [kind |-> "rendered", base |-> image, regions |-> regions]

\* image.save(path, 'PNG'): the content of the file written
SavePNG(image) == [format |-> "PNG", image |-> image]

NoImage == [kind |-> "none"]
NoResponse == [kind |-> "none"]


NoPath == 0

EmptyFile == [format |-> "empty", image |-> NoImage]
UploadedBytes == [format |-> "upload", image |-> NoImage]

\* the file system after writing content to path p
WriteFile(f, p, content) == [q \in DOMAIN f \cup {p} |-> IF q = p THEN content ELSE f[q]]

\* os.unlink(p)
Unlink(f, p) == [q \in DOMAIN f \ {p} |-> f[q]]

\* flash(message); return redirect(url_for('index'))
Redirect(message) == [kind |-> "redirect", flash |-> message]

----------------------------------------------------------------------------
(* State after the module has been imported and the services constructed *)

\* the import at the top of the module that always reports the real engine
ImportTextExtractor_AlwaysAvailable(real_importable) ==
    [OCR_AVAILABLE |-> TRUE,
     TextExtractor |-> IF real_importable THEN "TextExtractor" ELSE "TextExtractorFallback"]

\* try: from services.text_extractor import TextExtractor; OCR_AVAILABLE = True
\* except ImportError: ... import TextExtractorFallback as TextExtractor; OCR_AVAILABLE = False
ImportTextExtractor(real_importable) ==
    [OCR_AVAILABLE |-> real_importable,
     TextExtractor |-> IF real_importable THEN "TextExtractor" ELSE "TextExtractorFallback"]

startup_vars == <<OCR_AVAILABLE, text_extractor>>

Init ==
    /\ \E real_importable \in BOOLEAN :
          /\ OCR_AVAILABLE = ImportTextExtractor(real_importable).OCR_AVAILABLE
          /\ text_extractor = ImportTextExtractor(real_importable).TextExtractor
    /\ pc = "idle"
    /\ request = [has_file |-> FALSE, filename |-> <<>>, size |-> 0]
    /\ filename = <<>>
    /\ temp_input = NoPath
    /\ fs = <<>>
    /\ written = <<>>
    /\ nextTmp = 1
    /\ images = <<>>
    /\ idx = 0
    /\ text_regions = <<>>
    /\ detected = <<>>
    /\ translated_regions = <<>>
    /\ ridx = 0
    /\ outcomes = <<>>
    /\ cleaned_image = NoImage
    /\ final_image = NoImage
    /\ processed_files = <<>>
    /\ returned_files = <<>>
    /\ zip_file = <<>>
    /\ unlinked = 0
    /\ exc = ""
    /\ calls = {}
    /\ response = NoResponse

pipeline_vars == <<images, idx, text_regions, detected, translated_regions, ridx, outcomes,
                   cleaned_image,
                   final_image, processed_files, calls>>
upload_vars == <<request, filename, temp_input, returned_files, zip_file, unlinked, response>>

----------------------------------------------------------------------------
(* health_check *)

\* the body jsonify builds
health_check ==
    [kind |-> "health", status |-> "healthy", ocr_available |-> OCR_AVAILABLE,
     services |-> [text_extractor |-> "ready", translator |-> "ready",
                   image_processor |-> "ready", arabic_renderer |-> "ready"]]

\* a GET /health arrives and is answered
HealthCheck ==
    /\ pc = "idle"
    /\ response' = health_check
    /\ pc' = "done"
    /\ UNCHANGED startup_vars
    /\ UNCHANGED <<request, filename, temp_input, fs, written, nextTmp, returned_files,
                   zip_file, unlinked, exc, pipeline_vars>>

----------------------------------------------------------------------------
(* upload_file: validation of the request *)

\* a POST /upload arrives
Arrive ==
    /\ pc = "idle"
    /\ \E has_file \in BOOLEAN, upload \in Uploads :
          request' = [has_file |-> has_file,
                      filename |-> IF has_file THEN upload[1] ELSE <<>>,
                      size |-> IF has_file THEN upload[2] ELSE 0]
    /\ pc' = "received"
    /\ UNCHANGED startup_vars
    /\ UNCHANGED <<filename, temp_input, fs, written, nextTmp, returned_files, zip_file, unlinked,
                   exc, response, pipeline_vars>>

\* if 'file' not in request.files
NoFileField ==
    /\ pc = "received"
    /\ ~request.has_file
    /\ response' = Redirect(<<"No file selected">>)
    /\ pc' = "done"
    /\ UNCHANGED startup_vars
    /\ UNCHANGED <<request, filename, temp_input, fs, written, nextTmp, returned_files, zip_file,
                   unlinked, exc, pipeline_vars>>

\* if file.filename == ''
EmptyFilename ==
    /\ pc = "received"
    /\ request.has_file
    /\ request.filename = <<>>
    /\ response' = Redirect(<<"No file selected">>)
    /\ pc' = "done"
    /\ UNCHANGED startup_vars
    /\ UNCHANGED <<request, filename, temp_input, fs, written, nextTmp, returned_files, zip_file,
                   unlinked, exc, pipeline_vars>>

\* else branch of: if file and allowed_file(file.filename)
InvalidFileType ==
    /\ pc = "received"
    /\ request.has_file
    /\ request.filename # <<>>
    /\ ~allowed_file(request.filename)
    /\ response' = Redirect(<<"Invalid file type">>)
    /\ pc' = "done"
    /\ UNCHANGED startup_vars
    /\ UNCHANGED <<request, filename, temp_input, fs, written, nextTmp, returned_files, zip_file,
                   unlinked, exc, pipeline_vars>>

\* filename = secure_filename(...); temp_input = NamedTemporaryFile(delete=False, ...)
AcceptUpload ==
    /\ pc = "received"
    /\ request.has_file
    /\ request.filename # <<>>
    /\ allowed_file(request.filename)
    /\ filename' = secure_filename(request.filename)
    /\ temp_input' = nextTmp
    /\ fs' = WriteFile(fs, nextTmp, EmptyFile)
    /\ written' = WriteFile(written, nextTmp, EmptyFile)
    /\ nextTmp' = nextTmp + 1
    /\ pc' = "save_upload"
    /\ UNCHANGED startup_vars
    /\ UNCHANGED <<request, returned_files, zip_file, unlinked, exc, response, pipeline_vars>>

\* file.save(temp_input.name) returns
SaveUploadOk ==
    /\ pc = "save_upload"
    /\ fs' = WriteFile(fs, temp_input, UploadedBytes)
    /\ written' = WriteFile(written, temp_input, UploadedBytes)
    /\ pc' = "extract"
    /\ UNCHANGED startup_vars
    /\ UNCHANGED <<nextTmp, exc, upload_vars, pipeline_vars>>

\* file.save(temp_input.name) raises: the inner try has not been entered yet
SaveUploadFail ==
    /\ pc = "save_upload"
    /\ exc' = "SaveError"
    /\ pc' = "outer_except"
    /\ UNCHANGED startup_vars
    /\ UNCHANGED <<fs, written, nextTmp, upload_vars, pipeline_vars>>

----------------------------------------------------------------------------
(* process_file *)

\* head of "for image_data in images": the body runs for image i, or the loop ends
LoopPc(imgs, i) == IF i <= Len(imgs) THEN "detect" ELSE "return"

\* images = file_handler.extract_images(file_path, filename) returns
ExtractOk ==
    /\ pc = "extract"
    /\ \E imgs \in ExtractResults :
          /\ images' = imgs
          /\ pc' = LoopPc(imgs, 1)
    /\ processed_files' = <<>>
    /\ idx' = 1
    /\ calls' = calls \cup { <<"extract_images", 0>> }
    /\ UNCHANGED startup_vars
    /\ UNCHANGED <<fs, written, nextTmp, exc, text_regions, detected, translated_regions, ridx, outcomes, cleaned_image,
                   final_image, upload_vars>>

\* extract_images failing, with the failure turned into an empty list of images
ExtractFail_EmptyList ==
    /\ pc = "extract"
    /\ exc' = "ExtractError"
    /\ images' = <<>>
    /\ processed_files' = <<>>
    /\ idx' = 1
    /\ pc' = LoopPc(<<>>, 1)
    /\ calls' = calls \cup { <<"extract_images", 0>> }
    /\ UNCHANGED startup_vars
    /\ UNCHANGED <<fs, written, nextTmp, text_regions, detected, translated_regions, ridx,
                   outcomes, cleaned_image, final_image, upload_vars>>

\* file_handler.extract_images raises
ExtractFail ==
    /\ pc = "extract"
    /\ exc' = "ExtractError"
    /\ pc' = "process_file_except"
    /\ calls' = calls \cup { <<"extract_images", 0>> }
    /\ UNCHANGED startup_vars
    /\ UNCHANGED <<fs, written, nextTmp, images, idx, text_regions, detected, translated_regions, ridx, outcomes,
                   cleaned_image, final_image, processed_files, upload_vars>>

\* text_regions = text_extractor.extract_text(image_data['data']) returns;
\* "if not text_regions" selects the pass-through branch
DetectOk ==
    /\ pc = "detect"
    /\ \E regs \in DetectResultsOf(text_extractor) :
          /\ text_regions' = regs
          /\ detected' = Append(detected, regs)
          /\ outcomes' = IF regs = <<>> THEN outcomes ELSE <<>>
          /\ translated_regions' = IF regs = <<>> THEN translated_regions ELSE <<>>
          /\ ridx' = IF regs = <<>> THEN ridx ELSE 1
          /\ pc' = IF regs = <<>> THEN "save_original" ELSE "translate"
    /\ calls' = calls \cup { <<"extract_text", idx>> }
    /\ UNCHANGED startup_vars
    /\ UNCHANGED <<fs, written, nextTmp, exc, images, idx, cleaned_image, final_image,
                   processed_files, upload_vars>>

\* text_extractor.extract_text raises
DetectFail ==
    /\ pc = "detect"
    /\ exc' = "DetectError"
    /\ pc' = "process_file_except"
    /\ calls' = calls \cup { <<"extract_text", idx>> }
    /\ UNCHANGED startup_vars
    /\ UNCHANGED <<fs, written, nextTmp, images, idx, text_regions, detected, translated_regions, ridx, outcomes,
                   cleaned_image, final_image, processed_files, upload_vars>>

\* the pass-through branch reaching "continue" without the append
SaveOriginal_NoAppend ==
    /\ pc = "save_original"
    /\ fs' = WriteFile(fs, nextTmp, SavePNG(images[idx].data))
    /\ written' = WriteFile(written, nextTmp, SavePNG(images[idx].data))
    /\ nextTmp' = nextTmp + 1
    /\ idx' = idx + 1
    /\ pc' = LoopPc(images, idx + 1)
    /\ UNCHANGED startup_vars
    /\ UNCHANGED <<exc, images, text_regions, detected, translated_regions, ridx, outcomes,
                   cleaned_image, final_image, processed_files, calls, upload_vars>>

\* no text found: the original image is saved to a new temp file and appended
SaveOriginal ==
    /\ pc = "save_original"
    /\ fs' = WriteFile(fs, nextTmp, SavePNG(images[idx].data))
    /\ written' = WriteFile(written, nextTmp, SavePNG(images[idx].data))
    /\ processed_files' = Append(processed_files, nextTmp)
    /\ nextTmp' = nextTmp + 1
    /\ idx' = idx + 1
    /\ pc' = LoopPc(images, idx + 1)
    /\ UNCHANGED startup_vars
    /\ UNCHANGED <<exc, images, text_regions, detected, translated_regions, ridx, outcomes, cleaned_image,
                   final_image, calls, upload_vars>>

\* head of "for region in text_regions"
RegionPc(regs, i) == IF i <= Len(regs) THEN "translate" ELSE "inpaint"

\* the appended dict with a bounding box other than the region's
TranslatedDict_MovedBBox(region) ==
    [text |-> translate(region.text), bbox |-> <<0, 0, region.bbox[3], region.bbox[4]>>,
     confidence |-> GetConfidence(region)]

\* the dict appended when translator.translate returns
TranslatedDict(region) ==
    [text |-> translate(region.text), bbox |-> region.bbox,
     confidence |-> GetConfidence(region)]

\* translator.translate(region['text']) returns
TranslateOk ==
    /\ pc = "translate"
    /\ translated_regions' = Append(translated_regions, TranslatedDict(text_regions[ridx]))
    /\ outcomes' = Append(outcomes, "ok")
    /\ ridx' = ridx + 1
    /\ pc' = RegionPc(text_regions, ridx + 1)
    /\ calls' = calls \cup { <<"translate", idx>> }
    /\ UNCHANGED startup_vars
    /\ UNCHANGED <<fs, written, nextTmp, exc, images, idx, text_regions, detected, cleaned_image, final_image,
                   processed_files, upload_vars>>

\* the except clause of the translation loop without its append
TranslateFail_SkipRegion ==
    /\ pc = "translate"
    /\ outcomes' = Append(outcomes, "failed")
    /\ ridx' = ridx + 1
    /\ pc' = RegionPc(text_regions, ridx + 1)
    /\ calls' = calls \cup { <<"translate", idx>> }
    /\ UNCHANGED startup_vars
    /\ UNCHANGED <<fs, written, nextTmp, exc, images, idx, text_regions, detected,
                   translated_regions, cleaned_image, final_image, processed_files,
                   upload_vars>>

\* translator.translate raises: the except clause appends the region itself
TranslateFail ==
    /\ pc = "translate"
    /\ translated_regions' = Append(translated_regions, text_regions[ridx])
    /\ outcomes' = Append(outcomes, "failed")
    /\ ridx' = ridx + 1
    /\ pc' = RegionPc(text_regions, ridx + 1)
    /\ calls' = calls \cup { <<"translate", idx>> }
    /\ UNCHANGED startup_vars
    /\ UNCHANGED <<fs, written, nextTmp, exc, images, idx, text_regions, detected, cleaned_image, final_image,
                   processed_files, upload_vars>>

\* cleaned_image = image_processor.remove_text(image_data['data'], text_regions) returns
RemoveTextOk ==
    /\ pc = "inpaint"
    /\ cleaned_image' = remove_text(images[idx].data, text_regions)
    /\ pc' = "render"
    /\ calls' = calls \cup { <<"remove_text", idx>> }
    /\ UNCHANGED startup_vars
    /\ UNCHANGED <<fs, written, nextTmp, exc, images, idx, text_regions, detected, translated_regions, ridx, outcomes,
                   final_image, processed_files, upload_vars>>

\* remove_text failing, with the image dropped and the loop continued
RemoveTextFail_DropImage ==
    /\ pc = "inpaint"
    /\ exc' = "InpaintError"
    /\ idx' = idx + 1
    /\ pc' = LoopPc(images, idx + 1)
    /\ calls' = calls \cup { <<"remove_text", idx>> }
    /\ UNCHANGED startup_vars
    /\ UNCHANGED <<fs, written, nextTmp, images, text_regions, detected, translated_regions,
                   ridx, outcomes, cleaned_image, final_image, processed_files, upload_vars>>

\* image_processor.remove_text raises
RemoveTextFail ==
    /\ pc = "inpaint"
    /\ exc' = "InpaintError"
    /\ pc' = "process_file_except"
    /\ calls' = calls \cup { <<"remove_text", idx>> }
    /\ UNCHANGED startup_vars
    /\ UNCHANGED <<fs, written, nextTmp, images, idx, text_regions, detected, translated_regions, ridx, outcomes,
                   cleaned_image, final_image, processed_files, upload_vars>>

\* the renderer called on the original image instead of the cleaned one
RenderOk_OnOriginal ==
    /\ pc = "render"
    /\ final_image' = render_text(images[idx].data, translated_regions)
    /\ pc' = "save"
    /\ calls' = calls \cup { <<"render_text", idx>> }
    /\ UNCHANGED startup_vars
    /\ UNCHANGED <<fs, written, nextTmp, exc, images, idx, text_regions, detected,
                   translated_regions, ridx, outcomes, cleaned_image, processed_files,
                   upload_vars>>

\* final_image = arabic_renderer.render_text(cleaned_image, translated_regions) returns
RenderOk ==
    /\ pc = "render"
    /\ final_image' = render_text(cleaned_image, translated_regions)
    /\ pc' = "save"
    /\ calls' = calls \cup { <<"render_text", idx>> }
    /\ UNCHANGED startup_vars
    /\ UNCHANGED <<fs, written, nextTmp, exc, images, idx, text_regions, detected, translated_regions, ridx, outcomes,
                   cleaned_image, processed_files, upload_vars>>

\* arabic_renderer.render_text raises
RenderFail ==
    /\ pc = "render"
    /\ exc' = "RenderError"
    /\ pc' = "process_file_except"
    /\ calls' = calls \cup { <<"render_text", idx>> }
    /\ UNCHANGED startup_vars
    /\ UNCHANGED <<fs, written, nextTmp, images, idx, text_regions, detected, translated_regions, ridx, outcomes,
                   cleaned_image, final_image, processed_files, upload_vars>>

\* the processed image inserted at the front of the bundle
SaveProcessed_Prepend ==
    /\ pc = "save"
    /\ fs' = WriteFile(fs, nextTmp, SavePNG(final_image))
    /\ written' = WriteFile(written, nextTmp, SavePNG(final_image))
    /\ processed_files' = <<nextTmp>> \o processed_files
    /\ nextTmp' = nextTmp + 1
    /\ idx' = idx + 1
    /\ pc' = LoopPc(images, idx + 1)
    /\ UNCHANGED startup_vars
    /\ UNCHANGED <<exc, images, text_regions, detected, translated_regions, ridx, outcomes,
                   cleaned_image, final_image, calls, upload_vars>>

\* the processed image is saved to a new temp file and appended
SaveProcessed ==
    /\ pc = "save"
    /\ fs' = WriteFile(fs, nextTmp, SavePNG(final_image))
    /\ written' = WriteFile(written, nextTmp, SavePNG(final_image))
    /\ processed_files' = Append(processed_files, nextTmp)
    /\ nextTmp' = nextTmp + 1
    /\ idx' = idx + 1
    /\ pc' = LoopPc(images, idx + 1)
    /\ UNCHANGED startup_vars
    /\ UNCHANGED <<exc, images, text_regions, detected, translated_regions, ridx, outcomes, cleaned_image,
                   final_image, calls, upload_vars>>

\* the collaborator called at each stage of process_file
StageService ==
    [extract |-> "extract_images", detect |-> "extract_text", translate |-> "translate",
     inpaint |-> "remove_text", render |-> "render_text"]

\* the collaborator call of the current stage never returns: the calls are made
\* directly, with no timeout around them, so the request waits in the call
StageNeverReturns ==
    /\ pc \in DOMAIN StageService
    /\ calls' = calls \cup { <<StageService[pc], IF pc = "extract" THEN 0 ELSE idx>> }
    /\ pc' = "blocked"
    /\ UNCHANGED startup_vars
    /\ UNCHANGED <<fs, written, nextTmp, exc, images, idx, text_regions, detected,
                   translated_regions, ridx, outcomes, cleaned_image, final_image,
                   processed_files, upload_vars>>

\* return processed_files
ProcessFileReturn ==
    /\ pc = "return"
    /\ returned_files' = processed_files
    /\ pc' = "dispatch"
    /\ UNCHANGED startup_vars
    /\ UNCHANGED <<request, filename, temp_input, fs, written, nextTmp, zip_file, unlinked, exc,
                   response, pipeline_vars>>

\* the except clause of process_file without its raise: the list built so far is returned
ProcessFileExcept_Swallow ==
    /\ pc = "process_file_except"
    /\ pc' = "return"
    /\ UNCHANGED startup_vars
    /\ UNCHANGED <<fs, written, nextTmp, exc, upload_vars, pipeline_vars>>

\* except Exception as e: logger.error(...); raise
ProcessFileExcept ==
    /\ pc = "process_file_except"
    /\ pc' = "upload_except"
    /\ UNCHANGED startup_vars
    /\ UNCHANGED <<fs, written, nextTmp, exc, upload_vars, pipeline_vars>>

----------------------------------------------------------------------------
(* upload_file: the response *)

\* the entry name built from the 0-based position itself
ArcName_ZeroBased(i) == <<"translated_", i, ".png">>

\* f"translated_{i+1}.png" for the 0-based position i of enumerate
ArcName(i) == <<"translated_", i + 1, ".png">>

\* the single file sent under the name built from the stem of filename
SendSingle_StemName ==
    /\ pc = "dispatch"
    /\ Len(returned_files) = 1
    /\ response' = [kind |-> "file", body |-> fs[returned_files[1]],
                    download_name |-> <<"translated_">> \o rsplit(filename)[1]]
    /\ pc' = "finally"
    /\ UNCHANGED startup_vars
    /\ UNCHANGED <<request, filename, temp_input, fs, written, nextTmp, returned_files,
                   zip_file, unlinked, exc, pipeline_vars>>

\* if len(processed_files) == 1: return send_file(processed_files[0], ...)
SendSingle ==
    /\ pc = "dispatch"
    /\ Len(returned_files) = 1
    /\ response' = [kind |-> "file", body |-> fs[returned_files[1]],
                    download_name |-> <<"translated_">> \o filename]
    /\ pc' = "finally"
    /\ UNCHANGED startup_vars
    /\ UNCHANGED <<request, filename, temp_input, fs, written, nextTmp, returned_files, zip_file,
                   unlinked, exc, pipeline_vars>>

\* the multi-file branch going to the clean-up loop before any entry is written
ZipOpen_CleanUpFirst ==
    /\ pc = "dispatch"
    /\ Len(returned_files) # 1
    /\ zip_file' = <<>>
    /\ pc' = "unlink"
    /\ UNCHANGED startup_vars
    /\ UNCHANGED <<request, filename, temp_input, fs, written, nextTmp, returned_files,
                   unlinked, exc, response, pipeline_vars>>

\* else: zip_buffer = BytesIO(); with zipfile.ZipFile(zip_buffer, 'w', ...) as zip_file
ZipOpen ==
    /\ pc = "dispatch"
    /\ Len(returned_files) # 1
    /\ zip_file' = <<>>
    /\ pc' = "zip_write"
    /\ UNCHANGED startup_vars
    /\ UNCHANGED <<request, filename, temp_input, fs, written, nextTmp, returned_files, unlinked,
                   exc, response, pipeline_vars>>

\* zip_file.write(file_path, f"translated_{i+1}.png") for the next bundle entry
ZipWrite ==
    /\ pc = "zip_write"
    /\ Len(zip_file) < Len(returned_files)
    /\ LET i == Len(zip_file)
           file_path == returned_files[i + 1]
       IN  zip_file' = Append(zip_file, [arcname |-> ArcName(i), data |-> fs[file_path]])
    /\ UNCHANGED startup_vars
    /\ UNCHANGED <<pc, request, filename, temp_input, fs, written, nextTmp, returned_files, unlinked,
                   exc, response, pipeline_vars>>

\* zip_file.write raises for the next bundle entry
ZipWriteFail ==
    /\ pc = "zip_write"
    /\ Len(zip_file) < Len(returned_files)
    /\ exc' = "ZipError"
    /\ pc' = "upload_except"
    /\ UNCHANGED startup_vars
    /\ UNCHANGED <<fs, written, nextTmp, upload_vars, pipeline_vars>>

\* the with block ends; zip_buffer.seek(0)
ZipClose ==
    /\ pc = "zip_write"
    /\ Len(zip_file) = Len(returned_files)
    /\ unlinked' = 0
    /\ pc' = "unlink"
    /\ UNCHANGED startup_vars
    /\ UNCHANGED <<request, filename, temp_input, fs, written, nextTmp, returned_files, zip_file,
                   exc, response, pipeline_vars>>

\* for file_path in processed_files: os.unlink(file_path)
UnlinkOutput ==
    /\ pc = "unlink"
    /\ unlinked < Len(returned_files)
    /\ fs' = Unlink(fs, returned_files[unlinked + 1])
    /\ UNCHANGED written
    /\ unlinked' = unlinked + 1
    /\ UNCHANGED startup_vars
    /\ UNCHANGED <<pc, request, filename, temp_input, nextTmp, returned_files, zip_file,
                   exc, response, pipeline_vars>>

\* return send_file(zip_buffer, ..., download_name=f"translated_{stem}.zip", ...)
SendZip ==
    /\ pc = "unlink"
    /\ unlinked = Len(returned_files)
    /\ response' = [kind |-> "zip", body |-> zip_file,
                    download_name |-> <<"translated_">> \o rsplit(filename)[1] \o <<".zip">>]
    /\ pc' = "finally"
    /\ UNCHANGED startup_vars
    /\ UNCHANGED <<request, filename, temp_input, fs, written, nextTmp, returned_files, zip_file,
                   unlinked, exc, pipeline_vars>>

\* except Exception as e: flash(f'Error processing file: {str(e)}'); return redirect(...)
HandleProcessingError ==
    /\ pc = "upload_except"
    /\ response' = Redirect(<<"Error processing file: ", exc>>)
    /\ pc' = "finally"
    /\ UNCHANGED startup_vars
    /\ UNCHANGED <<exc, request, filename, temp_input, fs, written, nextTmp, returned_files, zip_file,
                   unlinked, pipeline_vars>>

\* finally: os.unlink(temp_input.name)
Finally ==
    /\ pc = "finally"
    /\ fs' = Unlink(fs, temp_input)
    /\ UNCHANGED written
    /\ pc' = "done"
    /\ UNCHANGED startup_vars
    /\ UNCHANGED <<nextTmp, exc, upload_vars, pipeline_vars>>

\* the outer handler letting the exception leave upload_file
HandleUploadError_Reraise ==
    /\ pc = "outer_except"
    /\ pc' = "done"
    /\ UNCHANGED startup_vars
    /\ UNCHANGED <<exc, fs, written, nextTmp, upload_vars, pipeline_vars>>

\* outer except Exception as e: flash(f'Upload failed: {str(e)}'); return redirect(...)
HandleUploadError ==
    /\ pc = "outer_except"
    /\ response' = Redirect(<<"Upload failed: ", exc>>)
    /\ pc' = "done"
    /\ UNCHANGED startup_vars
    /\ UNCHANGED <<exc, request, filename, temp_input, fs, written, nextTmp, returned_files, zip_file,
                   unlinked, pipeline_vars>>

----------------------------------------------------------------------------

Next ==
    \/ HealthCheck
    \/ Arrive
    \/ NoFileField
    \/ EmptyFilename
    \/ InvalidFileType
    \/ AcceptUpload
    \/ SaveUploadOk
    \/ SaveUploadFail
    \/ ExtractOk
    \/ ExtractFail
    \/ DetectOk
    \/ DetectFail
    \/ SaveOriginal
    \/ TranslateOk
    \/ TranslateFail
    \/ RemoveTextOk
    \/ RemoveTextFail
    \/ RenderOk
    \/ RenderFail
    \/ SaveProcessed
    \/ StageNeverReturns
    \/ ProcessFileReturn
    \/ ProcessFileExcept
    \/ SendSingle
    \/ ZipOpen
    \/ ZipWrite
    \/ ZipWriteFail
    \/ ZipClose
    \/ UnlinkOutput
    \/ SendZip
    \/ HandleProcessingError
    \/ Finally
    \/ HandleUploadError

Spec == Init /\ [][Next]_vars

----------------------------------------------------------------------------
(* Vocabulary of the properties *)

\* the request ended with a file or a ZIP sent to the caller
Success == response.kind \in {"file", "zip"}

\* the request ended with a flashed message and a redirect to the index page
Failed == response.kind = "redirect"

\* the exceptions of the inpainting and rendering stages
StageErrors == {"InpaintError", "RenderError"}

\* the temp files created for processed images
OutputPaths == DOMAIN written \ {temp_input}

\* process_file has returned its list to upload_file
Returned == pc \in {"dispatch", "zip_write", "unlink", "finally", "done"} /\ exc = ""

\* the extracted image an image value was derived from
RECURSIVE SourceOf(_)
SourceOf(img) == IF img.kind \in {"cleaned", "rendered"} THEN SourceOf(img.base) ELSE img

\* the name ends in a dot followed by an allowed extension, in any letter case
ExtensionAccepted(name) ==
    \E k \in 1..Len(name) :
        /\ name[k] = "."
        /\ lower(SubSeq(name, k + 1, Len(name))) \in ALLOWED_EXTENSIONS

----------------------------------------------------------------------------
(* C1 *)

----------------------------------------------------------------------------
(* C2 *)

----------------------------------------------------------------------------
(* C3 *)

\* C3: a successful request with a one-element bundle answers with that file
\* itself; with N >= 2 elements it answers with a ZIP of exactly N entries,
\* entry i named translated_i.png and holding the i-th file of the bundle.
C3_SingleFileOrNumberedZip ==
    (pc = "done" /\ Success) =>
        LET N == Len(returned_files) IN
        /\ N = 1 =>
              /\ response.kind = "file"
              /\ response.body = written[returned_files[1]]
        /\ N >= 2 =>
              /\ response.kind = "zip"
              /\ Len(response.body) = N
              /\ \A i \in 1..N :
                    /\ response.body[i].arcname = <<"translated_", i, ".png">>
                    /\ response.body[i].data = written[returned_files[i]]

\* a request answered with a ZIP of two different entries
C3_Witness ==
    /\ pc = "done"
    /\ response.kind = "zip"
    /\ Len(returned_files) = 2
    /\ written[returned_files[1]] # written[returned_files[2]]

----------------------------------------------------------------------------
(* C4 *)

\* C4: when the translation loop of an image is over, translated_regions has
\* one element per detected region, carrying the translation where translate
\* returned and the original text where it raised; that list is what the
\* renderer receives; a translate failure raises nothing out of the loop, and a
\* request in which nothing else raised ends in success.
C4_TranslationFallbackKeepsRegions ==
    /\ pc \in {"inpaint", "render", "save"} =>
          /\ Len(outcomes) = Len(text_regions)
          /\ Len(translated_regions) = Len(text_regions)
          /\ \A k \in 1..Len(text_regions) :
                /\ outcomes[k] = "ok" =>
                      translated_regions[k].text = translate(text_regions[k].text)
                /\ outcomes[k] = "failed" =>
                      translated_regions[k].text = text_regions[k].text
    /\ pc = "save" => final_image.regions = translated_regions
    /\ pc \in {"translate", "inpaint"} => exc = ""
    /\ (pc = "done" /\ temp_input # NoPath /\ exc = "") => Success

\* an image with two regions, one translated and one fallen back, was rendered
C4_Witness ==
    /\ pc = "save"
    /\ Len(text_regions) = 2
    /\ \E k \in 1..Len(outcomes) : outcomes[k] = "failed"
    /\ \E k \in 1..Len(outcomes) : outcomes[k] = "ok"

----------------------------------------------------------------------------
(* C5 *)

\* C5: when the request has ended, no temp file created for a processed image
\* still exists.
C5_NoOutputTempFileSurvives ==
    pc = "done" => OutputPaths \cap DOMAIN fs = {}

----------------------------------------------------------------------------
(* C6 *)

\* C6: when extract_images has raised, no image is processed (no detector,
\* translator, inpainter or renderer call, no output file), no file or ZIP is
\* sent, and the request ends with the error message.
C6_ExtractFailureFailsFile ==
    exc = "ExtractError" =>
        /\ \A c \in calls : c[1] = "extract_images"
        /\ OutputPaths = {}
        /\ ~Success
        /\ pc = "done" => response = Redirect(<<"Error processing file: ", "ExtractError">>)

\* a request that ended after extract_images raised
C6_Witness ==
    /\ pc = "done"
    /\ exc = "ExtractError"
    /\ Failed

----------------------------------------------------------------------------
(* C7 *)

\* C7: for an image on which the detector returned no region, translator,
\* inpainter and renderer are never called, and once the loop has passed it the
\* bundle holds, at its position, a file with the original image; when every
\* image is text-free the bundle returned has one entry per image, the i-th
\* being the i-th source image.
C7_TextFreeImagePassesThrough ==
    /\ \A i \in 1..Len(detected) :
          detected[i] = <<>> =>
              /\ {<<"translate", i>>, <<"remove_text", i>>, <<"render_text", i>>} \cap calls = {}
              /\ i < idx =>
                    /\ Len(processed_files) >= i
                    /\ written[processed_files[i]] = SavePNG(images[i].data)
    /\ (Returned /\ \A i \in 1..Len(detected) : detected[i] = <<>>) =>
          /\ Len(returned_files) = Len(images)
          /\ \A i \in 1..Len(images) :
                written[returned_files[i]] = SavePNG(images[i].data)

\* a request with two text-free images, answered with a ZIP
C7_Witness ==
    /\ pc = "done"
    /\ Len(images) = 2
    /\ detected = << <<>>, <<>> >>
    /\ response.kind = "zip"

----------------------------------------------------------------------------
(* C8 *)

\* C8: when process_file has returned for N extracted images, the bundle has
\* exactly N entries, all different files, and the i-th entry is the file
\* produced from the i-th extracted image.
C8_OneEntryPerImageInOrder ==
    Returned =>
        /\ Len(returned_files) = Len(images)
        /\ \A i, j \in 1..Len(returned_files) :
              returned_files[i] = returned_files[j] => i = j
        /\ \A i \in 1..Len(returned_files) :
              LET content == written[returned_files[i]] IN
              /\ content.format = "PNG"
              /\ SourceOf(content.image) = images[i].data
              /\ detected[i] = <<>> => content.image = images[i].data
              /\ detected[i] # <<>> =>
                    /\ content.image.kind = "rendered"
                    /\ content.image.base.regions = detected[i]

\* process_file has just returned for two images that differ
C8_Witness ==
    /\ pc = "dispatch"
    /\ Len(images) = 2
    /\ images[1] # images[2]
    /\ detected[1] # detected[2]

----------------------------------------------------------------------------
(* C9 *)

\* C9: in every rendered image, the regions handed to the renderer are as many
\* as the regions handed to the inpainter, and the k-th of them has the
\* bounding box of the k-th detected region, translated or not.
C9_RendererGetsSameGeometry ==
    /\ pc = "render" => cleaned_image.regions = text_regions
    /\ \A p \in DOMAIN written :
          written[p].image.kind = "rendered" =>
              LET out == written[p].image.regions
                  inp == written[p].image.base.regions
              IN  /\ written[p].image.base.kind = "cleaned"
                  /\ Len(out) = Len(inp)
                  /\ \A k \in 1..Len(inp) : out[k].bbox = inp[k].bbox

\* a rendered image with one translated region and one fallback region
C9_Witness ==
    \E p \in DOMAIN written :
        /\ written[p].image.kind = "rendered"
        /\ Len(written[p].image.regions) = 2
        /\ \E k \in 1..2 : written[p].image.regions[k].text[1] = "ar"
        /\ \E k \in 1..2 : written[p].image.regions[k].text[1] = "src"

----------------------------------------------------------------------------
(* C10 *)

\* the request names that do not end in a dot followed by an allowed extension
RejectedNames == { n \in FileNames : ~ExtensionAccepted(n) }

\* C10, as stated: a finished upload whose filename has no allowed extension
\* got the 'Invalid file type' response, with no temp file created and no call
\* of process_file.
C10_BadExtensionIsInvalidFileType ==
    (pc = "done" /\ request.has_file /\ request.filename \in RejectedNames) =>
        /\ response = Redirect(<<"Invalid file type">>)
        /\ temp_input = NoPath
        /\ DOMAIN written = {}
        /\ calls = {}

\* C10, amended: an upload whose filename is not empty and has no allowed
\* extension gets the 'Invalid file type' response; an upload with an empty
\* filename gets 'No file selected'; in both cases no temp file is created and
\* process_file is never called.
C10_RejectedWithoutProcessing ==
    (request.has_file /\ request.filename \in RejectedNames) =>
        /\ pc \in {"received", "done"}
        /\ temp_input = NoPath
        /\ DOMAIN written = {}
        /\ calls = {}
        /\ (pc = "done" /\ request.filename # <<>>) =>
              response = Redirect(<<"Invalid file type">>)
        /\ (pc = "done" /\ request.filename = <<>>) =>
              response = Redirect(<<"No file selected">>)

\* an upload named "zip", a name without extension, was rejected
C10_Witness ==
    /\ pc = "done"
    /\ request.has_file
    /\ request.filename = <<"z", "i", "p">>
    /\ response = Redirect(<<"Invalid file type">>)

----------------------------------------------------------------------------
(* C11 *)

\* process_file has been called for the request
ProcessFileCalled == <<"extract_images", 0>> \in calls

\* C11: process_file is never called for an uploaded file larger than
\* MAX_FILE_SIZE (200 MB).
C11_OversizedUploadNotProcessed ==
    ProcessFileCalled => request.size <= 200 * 1024 * 1024

----------------------------------------------------------------------------
(* C12 *)

\* the region carries a confidence below 0.3
BelowThreshold(region) == "confidence" \in DOMAIN region /\ region.confidence < 3

\* no region of the list is below the threshold
NoneBelowThreshold(regions) == \A k \in 1..Len(regions) : ~BelowThreshold(regions[k])

\* the regions an image value was inpainted or rendered with
RegionsOf(img) == IF img.kind \in {"cleaned", "rendered"} THEN img.regions ELSE <<>>

----------------------------------------------------------------------------
(* C13 *)

\* C13: a request that has not reached its outcome can always take a step: a
\* stage that does not return is ended by a timeout and handled as a failure,
\* so no request waits forever.
C13_NoRequestWaitsForever ==
    pc # "done" => ENABLED Next

----------------------------------------------------------------------------
(* C14 *)

\* the name without its last dot and what follows it
StemOf(name) == SubSeq(name, 1, LastDot(name) - 1)

\* the last dot of the name and what follows it
ExtensionOf(name) == SubSeq(name, LastDot(name), Len(name))

\* C14, as stated: a single processed image is sent under the name
\* translated_<stem>, the uploaded filename without its extension.
C14_SingleFileNamedByStem ==
    (pc = "done" /\ response.kind = "file") =>
        response.download_name = <<"translated_">> \o StemOf(request.filename)

\* C14, amended: a single processed image is sent under the name
\* translated_<filename>, the uploaded filename with its extension kept; only
\* the ZIP of the multi-image case is named by the stem, translated_<stem>.zip.
C14_SingleFileNamedByFilename ==
    /\ (response.kind = "file" /\ Head(request.filename) # ".") =>
          /\ response.download_name = <<"translated_">> \o request.filename
          /\ response.download_name =
                <<"translated_">> \o StemOf(request.filename) \o ExtensionOf(request.filename)
    /\ (response.kind = "zip" /\ Head(request.filename) # ".") =>
          response.download_name =
              <<"translated_">> \o StemOf(request.filename) \o <<".zip">>

\* the single image of an upload named "a.PdF" was sent
C14_Witness ==
    /\ pc = "done"
    /\ response.kind = "file"
    /\ request.filename = <<"a", ".", "P", "d", "F">>

----------------------------------------------------------------------------
(* C15 *)

\* C15: in every state the flag OCR_AVAILABLE, the value /health reports and
\* every /health response given say "true" exactly when the text_extractor
\* service is the real engine, and no step changes the flag or the service.
C15_VariantFixedAndReported ==
    /\ [](/\ OCR_AVAILABLE <=> (text_extractor = "TextExtractor")
          /\ health_check.ocr_available <=> (text_extractor = "TextExtractor")
          /\ response.kind = "health" =>
                (response.ocr_available <=> (text_extractor = "TextExtractor")))
    /\ [][OCR_AVAILABLE' = OCR_AVAILABLE /\ text_extractor' = text_extractor]_vars

\* /health answered "ocr_available: false" on a server running the fallback
C15_Witness ==
    /\ pc = "done"
    /\ response.kind = "health"
    /\ response.ocr_available = FALSE
    /\ text_extractor = "TextExtractorFallback"

----------------------------------------------------------------------------
(* C16 *)

\* the collaborator has been called for image i
Called(service, i) == <<service, i>> \in calls

\* C16: the stages run in the order Extracting, then per image Detecting,
\* Translating, Inpainting, Rendering, collect.  A call is made only when the
\* calls of the earlier stages have been made: detection only after extraction
\* has returned the images, and for image i only after images 1..i-1 were
\* collected; inpainting only with a translation outcome for every region;
\* the inpainter is given the original image and the detected regions, the
\* renderer the inpainter's output.
C16_StagesInOrder ==
    /\ \A c \in calls : c[1] # "extract_images" => Called("extract_images", 0)
    /\ \A i \in 1..MaxImages + 1 :
          /\ Called("extract_text", i) =>
                /\ i <= Len(images)
                /\ Len(processed_files) >= i - 1
                /\ \A j \in 1..(i - 1) : Called("extract_text", j)
          /\ Called("translate", i) => Called("extract_text", i) /\ detected[i] # <<>>
          /\ Called("remove_text", i) => Called("translate", i)
          /\ Called("render_text", i) => Called("remove_text", i)
          /\ (Called("remove_text", i) /\ i = idx) =>
                /\ Len(outcomes) = Len(text_regions)
                /\ text_regions = detected[i]
          /\ (Len(processed_files) >= i /\ i <= Len(detected) /\ detected[i] # <<>>) =>
                Called("render_text", i)
    /\ pc = "inpaint" => Len(outcomes) = Len(text_regions)
    /\ pc = "render" => cleaned_image = remove_text(images[idx].data, text_regions)
    /\ pc = "save" =>
          /\ final_image.kind = "rendered"
          /\ final_image.base = cleaned_image
          /\ cleaned_image.kind = "cleaned"
          /\ cleaned_image.base = images[idx].data

\* the second image has been rendered after a first image with text was collected
C16_Witness ==
    /\ pc = "save"
    /\ idx = 2
    /\ Len(processed_files) = 1
    /\ detected[1] # <<>>

----------------------------------------------------------------------------
(* C17 *)

\* C17: once the temp copy of the upload has been created, the request does not
\* end with that file still on disk, whichever way it ends.
C17_TempInputDeletedAtEnd ==
    (pc = "done" /\ temp_input # NoPath) => temp_input \notin DOMAIN fs

----------------------------------------------------------------------------
(* C18 *)

\* the positions of upload_file and process_file inside an except or finally clause
HandlerPositions == {"process_file_except", "upload_except", "outer_except", "finally"}

\* C18: no exception leaves upload_file.  A raised exception is always on its
\* way through the handlers; a response exists only once the request is in its
\* finally clause or over; a finished upload request has a file, a ZIP or a
\* redirect with a flashed message as its response, and when something was
\* raised it is the redirect, flashing that error.
C18_NoExceptionEscapes ==
    /\ exc # "" => pc \in HandlerPositions \cup {"done"}
    /\ response.kind # "none" => pc \in {"finally", "done"}
    /\ (pc = "done" /\ response.kind # "health") =>
          /\ response.kind \in {"file", "zip", "redirect"}
          /\ response.kind = "redirect" =>
                response.flash[1] \in {"No file selected", "Invalid file type",
                                       "Error processing file: ", "Upload failed: "}
          /\ exc # "" =>
                /\ response.kind = "redirect"
                /\ response.flash[1] \in {"Error processing file: ", "Upload failed: "}
                /\ response.flash[2] = exc

\* an upload whose ZIP could not be written ended with the error redirect
C18_Witness ==
    /\ pc = "done"
    /\ exc = "ZipError"
    /\ response = Redirect(<<"Error processing file: ", "ZipError">>)

----------------------------------------------------------------------------
(* C19 *)

\* C19: in the multi-file branch a bundle file is gone from disk only after all
\* N entries were written to the ZIP, its own entry holding its content; the
\* clean-up loop starts with the ZIP complete and has removed exactly its first
\* `unlinked` files, one per step; and the ZIP sent is the one built, sent when
\* all N files have been unlinked.
C19_ZipWrittenBeforeUnlink ==
    LET N == Len(returned_files) IN
    /\ \A i \in 1..N :
          returned_files[i] \notin DOMAIN fs =>
              /\ Len(zip_file) = N
              /\ zip_file[i].data = written[returned_files[i]]
              /\ i <= unlinked
    /\ pc = "unlink" =>
          /\ Len(zip_file) = N
          /\ unlinked <= N
          /\ \A i \in 1..N : i <= unlinked <=> returned_files[i] \notin DOMAIN fs
          /\ \A i, j \in 1..N : returned_files[i] = returned_files[j] => i = j
    /\ response.kind = "zip" =>
          /\ response.body = zip_file
          /\ Len(zip_file) = N
          /\ unlinked = N
          /\ \A i \in 1..N : returned_files[i] \notin DOMAIN fs

\* a ZIP of two entries was sent and both temp files are gone
C19_Witness ==
    /\ pc = "done"
    /\ response.kind = "zip"
    /\ Len(response.body) = 2
    /\ unlinked = 2
    /\ \A i \in 1..2 : returned_files[i] \notin DOMAIN fs

----------------------------------------------------------------------------
(* C20 *)

\* str.upper()
upper(s) ==
    [i \in 1..Len(s) |->
        IF \E k \in 1..Len(LowerChars) : LowerChars[k] = s[i]
        THEN UpperChars[CHOOSE k \in 1..Len(LowerChars) : LowerChars[k] = s[i]]
        ELSE s[i]]

\* the extensions of the configuration and of the request names, dot included,
\* as written and in upper case
DottedExtensions ==
    LET given == get_supported_formats
                 \cup { ExtensionOf(n) : n \in { m \in FileNames : HasDot(m) } }
    IN  given \cup { upper(e) : e \in given }

\* how many of the three kinds Config gives an extension
KindsOf(extension) ==
    Cardinality({ k \in {"image", "pdf", "archive"} :
                    \/ k = "image" /\ is_image_format(extension)
                    \/ k = "pdf" /\ is_pdf_format(extension)
                    \/ k = "archive" /\ is_archive_format(extension) })

\* the extensions that are exactly one of image, PDF and archive for Config
OneKindExtensions == { e \in DottedExtensions : KindsOf(e) = 1 }

\* the allow-list is Config.get_supported_formats() with the leading dots
\* removed; allowed_file accepts a name exactly when its extension, lower-cased,
\* is one of Config's; and every accepted extension, in whatever case, is of
\* exactly one kind
AllowListIsConfig ==
    /\ ALLOWED_EXTENSIONS = { Tail(e) : e \in get_supported_formats }
    /\ \A e \in DottedExtensions :
          /\ allowed_file(<<"x">> \o e) <=> lower(e) \in get_supported_formats
          /\ allowed_file(<<"x">> \o e) => e \in OneKindExtensions

\* C20: the upload allow-list and the configuration agree (AllowListIsConfig),
\* and the extension of every upload that was accepted is exactly one of image,
\* PDF and archive for Config, whatever its letter case.
C20_AllowListAgreesWithConfig ==
    /\ AllowListIsConfig
    /\ temp_input # NoPath => ExtensionOf(request.filename) \in OneKindExtensions

\* an upload whose extension is written in mixed case was accepted, and Config
\* calls it a PDF
C20_Witness ==
    /\ temp_input # NoPath
    /\ ExtensionOf(request.filename) = <<".","P","d","F">>
    /\ is_pdf_format(ExtensionOf(request.filename))
    /\ ~is_image_format(ExtensionOf(request.filename))
    /\ ~is_archive_format(ExtensionOf(request.filename))

====
